---- MODULE Spec2Model ----
(***************************************************************************)
(* AnalyticsService (serving/query.py): the query layer that merges the    *)
(* batch store (ClickHouse, table fact_orders) and the speed-layer store   *)
(* (Redis, keys order_count:<unix seconds>).                               *)
(*                                                                         *)
(* Instants are whole minutes counted from midnight; one hour is           *)
(* MinutesPerHour minutes.  The two stores are the environment: their      *)
(* contents are drawn in Init, their answers are computed from the         *)
(* contents the way the queries of the source ask for them.                *)
(***************************************************************************)
EXTENDS Integers, Sequences, FiniteSets, TLC

\* timedelta(hours=1) against timedelta(minutes=1)
MinutesPerHour == 60
\* datetime.timestamp() counts seconds
SecondsPerMinute == 60

\* ---------------------------------------------------------------- bounds
\* SpecWide: query instants range over Origin .. Origin + MaxSpan
MaxSpan == 100
\* Spec: query instants range over Boundary - NearSpan .. Boundary + NearSpan
NearSpan == 3
\* the orders table holds at most MaxOrders records
MaxOrders == 2
\* a failing speed-layer get is preceded by at most MaxHealthyGets good ones
MaxHealthyGets == 1
\* the caller feeds a cutover back as the query end at most MaxRefeeds times
MaxRefeeds == 1
\* get_realtime_metrics reads at most MaxRows rows
MaxRows == 2
\* the counts and the revenue of a row, and the event counts of the funnel,
\* are at most MaxEvents
MaxEvents == 4

Origin == 12 * MinutesPerHour + 50
Times == Origin..(Origin + MaxSpan)
\* the minutes for which the stores may hold data: either side of 13:00
Boundary == 13 * MinutesPerHour
DataMinutes == {Boundary - 2, Boundary - 1, Boundary}
NearTimes == (Boundary - NearSpan)..(Boundary + NearSpan)
\* the value of a speed-layer counter: no batch count equals it
SpeedCount == MaxOrders + 1

\* what a local holds before it is assigned
NoValue == -1
\* redis.get on an absent key answers None
Nil == -1
\* no speed-layer get fails during the call
NoFailure == -1

VARIABLES
    orders,            \* fact_orders: minute -> number of records created in it
    redis,             \* speed-layer store: key -> counter value
    empty_result_setting, \* ClickHouse empty_result_for_aggregation_by_empty_set
    pc,                \* position of the caller / of the running method
    start_time,        \* argument of get_order_count_by_minute
    end_time,          \* argument of get_order_count_by_minute
    batch_latest,      \* local batch_latest, the cutover
    results,           \* local results
    current,           \* local current of the speed-layer loop
    n_batch,           \* number of points of results the batch step contributed
    batch_queries,     \* the range queries issued to the batch store, <<start, end>>
    batch_rows,        \* the rows the batch store returned for the range query
    redis_gets,        \* the keys handed to redis.get, in order
    fallback_queries,  \* the per-bucket fallback queries issued, <<start, end>>
    get_failed,        \* a redis.get raised a connection error during the call
    prev_cutover,      \* the cutover of the previous call, when it was fed back
    refeeds,           \* number of times the cutover was fed back
    ratios             \* the ratio outputs of get_realtime_metrics / get_conversion_funnel

vars == <<orders, redis, empty_result_setting, pc, start_time, end_time,
          batch_latest, results, current, n_batch, batch_queries, batch_rows,
          redis_gets, fallback_queries, get_failed, prev_cutover, refeeds,
          ratios>>

storeVars == <<orders, redis, empty_result_setting>>
callVars == <<start_time, end_time, batch_latest, results, current, n_batch,
              batch_queries, batch_rows, redis_gets, fallback_queries,
              get_failed>>

Min(a, b) == IF a < b THEN a ELSE b
Max(a, b) == IF a > b THEN a ELSE b

RECURSIVE SumOver(_, _)
SumOver(f, S) ==
    IF S = {} THEN 0
    ELSE LET x == CHOOSE y \in S : TRUE IN f[x] + SumOver(f, S \ {x})

\* ------------------------------------------------------ boundary resolver
\* mutant: the start is not truncated to the hour
TruncHour_NoTruncation(t) == t

\* start_time.replace(minute=0, second=0, microsecond=0)
TruncHour(t) == t - (t % MinutesPerHour)

\* mutant: an `if` in place of the `while`
AdvanceToEnd_Once(b, end) == IF b < end THEN b + MinutesPerHour ELSE b

\* while batch_latest < end_time: batch_latest += timedelta(hours=1)
RECURSIVE AdvanceToEnd(_, _)
AdvanceToEnd(b, end) ==
    IF b < end THEN AdvanceToEnd(b + MinutesPerHour, end) ELSE b

\* mutant: the step back to the previous hour is left out
StepBack_Missing(b) == b

\* batch_latest -= timedelta(hours=1)
StepBack(b) == b - MinutesPerHour

BatchLatest(start, end) == StepBack(AdvanceToEnd(TruncHour(start), end))

\* ------------------------------------------------------------ batch store
\* SELECT count() ... WHERE created_at >= start AND created_at < end
CountOrders(lo, hi) ==
    SumOver(orders, {m \in DataMinutes : lo <= m /\ m < hi})

\* SELECT toStartOfMinute(created_at), count() ... GROUP BY minute:
\* one row per minute of the window that holds a record
GroupedRows(lo, hi) ==
    {<<m, orders[m]>> : m \in {x \in DataMinutes : lo <= x /\ x < hi /\ orders[x] > 0}}

\* the orders in which the store can hand `rows` back
RowOrders(rows) ==
    {s \in [1..Cardinality(rows) -> rows] :
        \A i, j \in 1..Cardinality(rows) : i # j => s[i] # s[j]}

\* clickhouse.execute(query, {start, end}): the grouped rows of the window.
\* The query text asks ORDER BY minute; the ordering is the store's doing, and
\* the code takes the rows in whatever order the store hands them back, so
\* every order is an answer here and batch_rows records the one given.
ExecuteRange(lo, hi) == RowOrders(GroupedRows(lo, hi))

\* clickhouse.execute(fallback_query, {start, end}): an aggregate without
\* GROUP BY answers one row, also over an empty window, unless the server
\* runs with empty_result_for_aggregation_by_empty_set
ExecuteCount(lo, hi) ==
    LET c == CountOrders(lo, hi)
    IN  IF c = 0 /\ empty_result_setting THEN << >> ELSE << <<c>> >>

\* ------------------------------------------------------------ speed store
\* f"order_count:{int(current.timestamp())}"
Key(t) == t * SecondsPerMinute

\* redis.get(key): the counter, held here as the number its decimal string
\* denotes (int(count) reads it back), or None
RedisGet(key) == IF key \in DOMAIN redis THEN redis[key] ELSE Nil

\* `if count:` on the decoded string, or None
Truthy(count) == count # Nil

\* ------------------------------------------------ get_order_count_by_minute
\* mutant: the batch query runs up to end_time
BatchUpper_Unclamped(end, latest) == end

\* {'start': start_time, 'end': min(end_time, batch_latest)}
BatchUpper(end, latest) == Min(end, latest)

\* mutant: the loop starts at the hour of start_time
SpeedStart_StartHour(start, latest) == TruncHour(start)

\* current = batch_latest
SpeedStart(start, latest) == latest

\* mutant: the get is wrapped in try/except and the loop goes on
CatchesGetError_Swallowed == TRUE

\* redis.get stands in no try block: its exception leaves the method
CatchesGetError == FALSE

\* if fallback_result: results.append((current, fallback_result[0][0]))
AppendFallback(res, t, fallback_result) ==
    IF fallback_result # << >> THEN Append(res, <<t, fallback_result[1][1]>>)
    ELSE res

\* the while loop of step 3; `healthy` gets succeed before one raises
\* (NoFailure: none raises)
RECURSIVE SpeedLoop(_, _, _, _)
SpeedLoop(cur, end, acc, healthy) ==
    IF ~(cur < end) THEN [acc EXCEPT !.current = cur]
    ELSE
      LET key == Key(cur)
          got == [acc EXCEPT !.gets = Append(@, key), !.current = cur]
      IN  IF healthy = Len(acc.gets) /\ ~acc.failed
          THEN IF CatchesGetError
               THEN SpeedLoop(cur + 1, end, [got EXCEPT !.failed = TRUE], healthy)
               ELSE [got EXCEPT !.failed = TRUE, !.raised = TRUE]
          ELSE
            LET count == RedisGet(key)
            IN  IF Truthy(count)
                THEN SpeedLoop(cur + 1, end,
                         [got EXCEPT !.results = Append(@, <<cur, count>>)], healthy)
                ELSE SpeedLoop(cur + 1, end,
                         [got EXCEPT
                            !.fallbacks = Append(@, <<cur, cur + 1>>),
                            !.results = AppendFallback(@, cur,
                                            ExecuteCount(cur, cur + 1))],
                         healthy)

\* --------------------------------------------------------------- ratios
\* a / b in Python: a fault on b = 0, else the exact quotient
Divide(a, b) ==
    IF b = 0 THEN [fault |-> TRUE, num |-> a, den |-> 0]
    ELSE [fault |-> FALSE, num |-> a, den |-> b]

Zero == [fault |-> FALSE, num |-> 0, den |-> 1]

\* total_revenue / total_orders if total_orders > 0 else 0
AvgOrderValue(total_revenue, total_orders) ==
    IF total_orders > 0 THEN Divide(total_revenue, total_orders) ELSE Zero

\* mutant: the guard on the denominator is left out
Rate_Unguarded(part, whole) == Divide(part * 100, whole)

\* (part / whole * 100) if whole > 0 else 0
Rate(part, whole) ==
    IF whole > 0 THEN Divide(part * 100, whole) ELSE Zero

RECURSIVE SumColumn(_, _)
SumColumn(rows, col) ==
    IF rows = << >> THEN 0 ELSE Head(rows)[col] + SumColumn(Tail(rows), col)

\* ------------------------------------------------------------------ Init
StoreContents ==
    {f \in [DataMinutes -> 0..MaxOrders] : SumOver(f, DataMinutes) <= MaxOrders}

SpeedContents ==
    {[k \in {Key(m) : m \in S} |-> SpeedCount] : S \in SUBSET DataMinutes}

InitCall ==
    /\ pc = "idle"
    /\ start_time = NoValue
    /\ end_time = NoValue
    /\ batch_latest = NoValue
    /\ results = << >>
    /\ current = NoValue
    /\ n_batch = 0
    /\ batch_queries = << >>
    /\ batch_rows = << >>
    /\ redis_gets = << >>
    /\ fallback_queries = << >>
    /\ get_failed = FALSE
    /\ prev_cutover = NoValue
    /\ refeeds = 0
    /\ ratios = [kind |-> "none"]

\* every content of the two stores
Init ==
    /\ orders \in StoreContents
    /\ redis \in SpeedContents
    /\ empty_result_setting \in BOOLEAN
    /\ InitCall

\* both stores empty
InitWide ==
    /\ orders = [m \in DataMinutes |-> 0]
    /\ redis = << >>
    /\ empty_result_setting \in BOOLEAN
    /\ InitCall

\* --------------------------------------------------------------- actions
\* a caller invokes get_order_count_by_minute(start_time, end_time)
Call(T) ==
    /\ pc = "idle"
    /\ \E s \in T, e \in T :
         /\ s <= e
         /\ start_time' = s
         /\ end_time' = e
    /\ pc' = "called"
    /\ UNCHANGED <<storeVars, batch_latest, results, current, n_batch,
                   batch_queries, batch_rows, redis_gets, fallback_queries,
                   get_failed, prev_cutover, refeeds, ratios>>

\* step 1: the cutover
Resolve ==
    /\ pc = "called"
    /\ batch_latest' = BatchLatest(start_time, end_time)
    /\ results' = << >>
    /\ pc' = "resolved"
    /\ UNCHANGED <<storeVars, start_time, end_time, current, n_batch,
                   batch_queries, batch_rows, redis_gets, fallback_queries,
                   get_failed, prev_cutover, refeeds, ratios>>

\* step 2: the batch layer
BatchLayer ==
    /\ pc = "resolved"
    /\ IF start_time < batch_latest
       THEN LET upper == BatchUpper(end_time, batch_latest)
            IN  \E rows \in ExecuteRange(start_time, upper) :
                  /\ batch_queries' = Append(batch_queries, <<start_time, upper>>)
                  /\ batch_rows' = rows
                  /\ results' = results \o rows
                  /\ n_batch' = Len(results) + Len(rows)
       ELSE /\ UNCHANGED <<batch_queries, batch_rows, results>>
            /\ n_batch' = Len(results)
    /\ pc' = "batched"
    /\ UNCHANGED <<storeVars, start_time, end_time, batch_latest, current,
                   redis_gets, fallback_queries, get_failed, prev_cutover,
                   refeeds, ratios>>

\* step 3: the speed layer, and the return
SpeedLayer ==
    /\ pc = "batched"
    /\ IF end_time > batch_latest
       THEN \E healthy \in {NoFailure} \cup 0..MaxHealthyGets :
              LET out == SpeedLoop(SpeedStart(start_time, batch_latest), end_time,
                             [results |-> results, gets |-> << >>,
                              fallbacks |-> << >>, failed |-> FALSE,
                              raised |-> FALSE, current |-> NoValue],
                             healthy)
              IN  /\ results' = out.results
                  /\ redis_gets' = out.gets
                  /\ fallback_queries' = out.fallbacks
                  /\ current' = out.current
                  /\ get_failed' = out.failed
                  /\ pc' = IF out.raised THEN "raised" ELSE "done"
       ELSE /\ UNCHANGED <<results, redis_gets, fallback_queries, current, get_failed>>
            /\ pc' = "done"
    /\ UNCHANGED <<storeVars, start_time, end_time, batch_latest, n_batch,
                   batch_queries, batch_rows, prev_cutover, refeeds, ratios>>

\* the caller feeds the cutover back as the end of a new query
Requery ==
    /\ pc = "done"
    /\ refeeds < MaxRefeeds
    /\ prev_cutover' = batch_latest
    /\ refeeds' = refeeds + 1
    /\ end_time' = batch_latest
    /\ start_time' = Min(start_time, batch_latest)
    /\ batch_latest' = NoValue
    /\ results' = << >>
    /\ current' = NoValue
    /\ n_batch' = 0
    /\ batch_queries' = << >>
    /\ batch_rows' = << >>
    /\ redis_gets' = << >>
    /\ fallback_queries' = << >>
    /\ get_failed' = FALSE
    /\ pc' = "called"
    /\ UNCHANGED <<storeVars, ratios>>

\* the rows (order_count, revenue) of the last five minutes
MetricRows == (0..MaxEvents) \X (0..MaxEvents)

\* get_realtime_metrics
GetRealtimeMetrics ==
    /\ pc = "idle"
    /\ \E n \in 0..MaxRows :
         \E rows \in [1..n -> MetricRows] :
           LET total_orders == SumColumn(rows, 1)
               total_revenue == SumColumn(rows, 2)
           IN  ratios' = [kind |-> "metrics",
                          last_5min_orders |-> total_orders,
                          last_5min_revenue |-> total_revenue,
                          avg_order_value |->
                              AvgOrderValue(total_revenue, total_orders)]
    /\ pc' = "metrics_done"
    /\ UNCHANGED <<storeVars, callVars, prev_cutover, refeeds>>

\* get_conversion_funnel
GetConversionFunnel ==
    /\ pc = "idle"
    /\ \E page_views \in 0..MaxEvents, add_to_carts \in 0..MaxEvents,
          purchases \in 0..MaxEvents :
         ratios' = [kind |-> "funnel",
                    page_views |-> page_views,
                    add_to_carts |-> add_to_carts,
                    purchases |-> purchases,
                    view_to_cart_rate |-> Rate(add_to_carts, page_views),
                    cart_to_purchase_rate |-> Rate(purchases, add_to_carts),
                    overall_conversion_rate |-> Rate(purchases, page_views)]
    /\ pc' = "funnel_done"
    /\ UNCHANGED <<storeVars, callVars, prev_cutover, refeeds>>

Method ==
    \/ Resolve
    \/ BatchLayer
    \/ SpeedLayer
    \/ Requery

Next == Call(NearTimes) \/ Method

NextWide == Call(Times) \/ Method

\* every store content, query instants around the 13:00 boundary
Spec == Init /\ [][Next]_vars

\* empty stores, query instants over the whole range
SpecWide == InitWide /\ [][NextWide]_vars

NextRatios == GetRealtimeMetrics \/ GetConversionFunnel

\* the two methods that compute ratios, over every answer of the batch store
SpecRatios == InitWide /\ [][NextRatios]_vars

\* ================================================================ claims
Resolved == pc \in {"resolved", "batched", "done", "raised"}
Batched == pc \in {"batched", "done", "raised"}
Ended == pc \in {"done", "raised"}

\* the timestamps of the points of results contributed by each step
BatchPoints == SubSeq(results, 1, n_batch)
SpeedPoints == SubSeq(results, n_batch + 1, Len(results))

StrictlyIncreasing(points) ==
    \A i \in 1..(Len(points) - 1) : points[i][1] < points[i + 1][1]

\* C1: for start_time <= end_time the cutover is hour-aligned, is end_time
\* truncated down to the hour when end_time is not on the hour and end_time
\* minus one hour when it is, and is never after end_time.
C1_CutoverIsTruncatedEnd ==
    (Resolved /\ start_time <= end_time) =>
        /\ batch_latest % MinutesPerHour = 0
        /\ (end_time % MinutesPerHour # 0 =>
                batch_latest = end_time - (end_time % MinutesPerHour))
        /\ (end_time % MinutesPerHour = 0 =>
                batch_latest = end_time - MinutesPerHour)
        /\ batch_latest <= end_time

C1_Witness ==
    /\ pc = "resolved"
    /\ refeeds = 0
    /\ start_time < end_time
    /\ start_time % MinutesPerHour # 0
    /\ end_time % MinutesPerHour = 0
    /\ batch_latest = end_time - MinutesPerHour

\* C2: every speed-layer key looked up, every fallback query issued and
\* every point the speed-layer step appends has a bucket t with
\* max(start_time, cutover) <= t < end_time.
C2_SpeedRangeClamped ==
    Ended =>
        LET lower == Max(start_time, batch_latest)
        IN  /\ \A i \in 1..Len(redis_gets) :
                 Key(lower) <= redis_gets[i] /\ redis_gets[i] < Key(end_time)
            /\ \A i \in 1..Len(fallback_queries) :
                 lower <= fallback_queries[i][1] /\ fallback_queries[i][1] < end_time
            /\ \A i \in 1..Len(SpeedPoints) :
                 lower <= SpeedPoints[i][1] /\ SpeedPoints[i][1] < end_time

\* C3: for an empty range the method returns an empty sequence and calls
\* neither store.
C3_EmptyRangeNoCalls ==
    (pc = "done" /\ start_time = end_time) =>
        /\ results = << >>
        /\ batch_queries = << >>
        /\ redis_gets = << >>
        /\ fallback_queries = << >>

\* C4: for every bucket t the speed-layer step looked up and the speed store
\* has no entry for, the returned series holds the point (t, batch count of
\* [t, t+1min)) when the batch store has a record in that window, and no
\* point for t when it has none.
C4_CompleteUnderMiss ==
    pc = "done" =>
        \A i \in 1..Len(redis_gets) :
            LET t == redis_gets[i] \div SecondsPerMinute
                n == CountOrders(t, t + 1)
            IN  RedisGet(redis_gets[i]) = Nil =>
                    /\ n > 0 =>
                         \E j \in 1..Len(SpeedPoints) : SpeedPoints[j] = <<t, n>>
                    /\ n = 0 =>
                         \A j \in 1..Len(results) : results[j][1] # t

\* C5: every timestamp the batch-layer step contributes is before the
\* cutover, every timestamp the speed-layer step contributes is at or after
\* it, and no batch range query has an upper bound after the cutover.
C5_Disjoint ==
    Batched =>
        /\ \A i \in 1..Len(BatchPoints) : BatchPoints[i][1] < batch_latest
        /\ \A i \in 1..Len(SpeedPoints) : SpeedPoints[i][1] >= batch_latest
        /\ \A i \in 1..Len(batch_queries) : batch_queries[i][2] <= batch_latest

C5_Witness ==
    /\ pc = "done"
    /\ Len(BatchPoints) = 2
    /\ Len(SpeedPoints) >= 1
    /\ batch_queries # << >>

C7_FailureDoesNotAbort ==
    (Ended /\ get_failed) => (pc = "done" /\ current >= end_time)

\* C7, amended: a failed speed-layer get ends the call with the exception:
\* the loop stops at the failing bucket, before end_time, that get is the
\* last one issued, and nothing is returned.
C7_FailureAborts ==
    get_failed =>
        /\ pc = "raised"
        /\ current < end_time
        /\ redis_gets # << >>
        /\ redis_gets[Len(redis_gets)] = Key(current)

C7_Witness ==
    /\ pc = "raised"
    /\ get_failed
    /\ Len(redis_gets) = 2
    /\ current + 1 < end_time

\* C8 as stated: feeding the cutover back as the query end yields the same
\* instant.
C8_Idempotent ==
    (Resolved /\ refeeds > 0) => batch_latest = prev_cutover

\* C8, amended: feeding the cutover back as the query end yields the instant
\* one hour before it.
C8_RefeedStepsBackOneHour ==
    (Resolved /\ refeeds > 0) =>
        /\ end_time = prev_cutover
        /\ batch_latest = prev_cutover - MinutesPerHour

C8_Witness ==
    /\ pc = "resolved"
    /\ refeeds = 1
    /\ end_time = prev_cutover
    /\ start_time < end_time

\* the window 13:00 to 14:30
ScenarioA ==
    /\ refeeds = 0
    /\ start_time = 13 * MinutesPerHour
    /\ end_time = 14 * MinutesPerHour + 30

BucketKeys(from, to) == [i \in 1..(to - from) |-> Key(from + i - 1)]

\* C9 as stated: in Scenario A the cutover is 13:00, no batch range query is
\* issued, and the speed-layer step looks up every minute from 13:00 up to
\* but excluding 14:30.
C9_ScenarioA_CutoverAtStart ==
    ScenarioA =>
        /\ Resolved => batch_latest = 13 * MinutesPerHour
        /\ Batched => batch_queries = << >>
        /\ pc = "done" => redis_gets = BucketKeys(start_time, end_time)

\* C9, amended: in Scenario A the cutover is 14:00, one batch range query is
\* issued for 13:00 to 14:00, and the speed-layer step looks up every minute
\* from 14:00 up to but excluding 14:30.
C9_ScenarioA_CutoverAtEndHour ==
    ScenarioA =>
        /\ Resolved => batch_latest = 14 * MinutesPerHour
        /\ Batched => batch_queries = << <<start_time, 14 * MinutesPerHour>> >>
        /\ pc = "done" => redis_gets = BucketKeys(14 * MinutesPerHour, end_time)

C9_Witness ==
    /\ ScenarioA
    /\ pc = "done"
    /\ Len(batch_queries) = 1
    /\ Len(redis_gets) = 30

\* C10: no ratio is a division fault, and a ratio whose denominator is 0 is
\* exactly 0: avg_order_value when the order total is 0, view_to_cart_rate
\* and overall_conversion_rate when page_views is 0, cart_to_purchase_rate
\* when add_to_carts is 0.
C10_SafeDivision ==
    /\ ratios.kind = "metrics" =>
         /\ ~ratios.avg_order_value.fault
         /\ ratios.last_5min_orders = 0 => ratios.avg_order_value = Zero
    /\ ratios.kind = "funnel" =>
         /\ ~ratios.view_to_cart_rate.fault
         /\ ~ratios.cart_to_purchase_rate.fault
         /\ ~ratios.overall_conversion_rate.fault
         /\ ratios.page_views = 0 =>
              /\ ratios.view_to_cart_rate = Zero
              /\ ratios.overall_conversion_rate = Zero
         /\ ratios.add_to_carts = 0 => ratios.cart_to_purchase_rate = Zero

C10_Witness ==
    /\ ratios.kind = "funnel"
    /\ ratios.page_views = 0
    /\ ratios.add_to_carts = 0
    /\ ratios.purchases > 0

====
